---- MODULE Spec2Model ----
(***************************************************************************)
(* Model of SNOWAppInterrogator.py: the three copies of the Table API      *)
(* fetcher (getAllTableRecords, createRecord, PullClassSchema), the        *)
(* business-rule filter and the four demos of main().                      *)
(*                                                                         *)
(* Python values are tagged records [t |-> type name, v |-> payload], so   *)
(* that a dict, a list, a str and None can be told apart the way the       *)
(* interpreter tells them apart when it subscripts or iterates them.       *)
(* A log or stdout line is kept as its format string and the tuple of     *)
(* values formatted into it.                                               *)
(***************************************************************************)
EXTENDS Integers, Sequences, FiniteSets, TLC

VARIABLES
    pc,            \* position of main(): which demo runs next
    proc,          \* how the process stands: running, or how it ended
    log,           \* lines written through the module-level logger `log`
    stdout,        \* lines written by print()
    requests,      \* HTTP requests issued so far, in order
    call,          \* the latest fetcher invocation: function, network outcome, result
    calls,         \* every fetcher invocation so far: function, clause, exception
    records,       \* main's local `records`
    busRules,      \* main's local `busRules` / identifyCustomBusinessRules' argument
    custBusRules,  \* main's local `custBusRules`
    newClass,      \* main's local `newClass`
    newObject      \* main's local `newObject`

vars == <<pc, proc, log, stdout, requests, call, calls, records, busRules,
          custBusRules, newClass, newObject>>

(***************************************************************************)
(* Bounds                                                                  *)
(***************************************************************************)
\* longest busRules["result"] list drawn for identifyCustomBusinessRules
MaxRules == 3

(***************************************************************************)
(* Python values                                                           *)
(***************************************************************************)
None == [t |-> "NoneType", v |-> <<>>]
Str(s) == [t |-> "str", v |-> s]
PyInt(n) == [t |-> "int", v |-> n]
List(s) == [t |-> "list", v |-> s]
Dict(r) == [t |-> "dict", v |-> r]
\* an exception object as it is formatted by %s: its class and what its text carries
Exc(cls, info) == [t |-> cls, v |-> info]

\* the exception x[k] raises, "none" when it evaluates
SubscriptExc(x, k) ==
    IF x.t = "dict"
    THEN IF k \in DOMAIN x.v THEN "none" ELSE "KeyError"
    ELSE "TypeError"

RECURSIVE SetToSeq(_)
SetToSeq(S) ==
    IF S = {} THEN <<>>
    ELSE LET x == CHOOSE y \in S : TRUE IN <<x>> \o SetToSeq(S \ {x})

\* the items `for item in x` visits; a dict yields its keys
IterExc(x) == IF x.t \in {"list", "dict", "str"} THEN "none" ELSE "TypeError"
IterItems(x) ==
    IF x.t = "list" THEN x.v
    ELSE IF x.t = "dict" THEN [i \in 1..Len(SetToSeq(DOMAIN x.v)) |->
                                  Str(SetToSeq(DOMAIN x.v)[i])]
    ELSE <<>>

(***************************************************************************)
(* The remote end: what one HTTP exchange can produce                      *)
(***************************************************************************)
App == "incident"

Statuses == {200, 201, 304, 401, 503}

BodyIncidents == "{\"result\":[{\"number\":\"INC001\",\"description\":\"test\"}]}"
BodyNoRows == "{\"result\":[]}"
BodyRules == "{\"result\":[{\"sys_name\":\"r1\",\"sys_created_by\":\"admin\",\"sys_updated_by\":\"bob\"},{\"sys_name\":\"r2\",\"sys_created_by\":\"admin\",\"sys_updated_by\":\"admin\"}]}"
BodySchema == "{\"result\":[{\"element\":\"urgency\",\"internal_type\":{\"value\":\"integer\"}}]}"
BodyCreated == "{\"result\":{\"number\":\"INC002\"}}"
BodyError == "{\"error\":{\"message\":\"Unauthorized\"}}"
BodyHtml == "<html>...</html>"
BodyEmpty == ""

Bodies == {BodyIncidents, BodyNoRows, BodyRules, BodySchema, BodyCreated,
           BodyError, BodyHtml, BodyEmpty}

\* response.headers, as a set of <<name, value>> pairs
NoHeaders == {}
ContentType(v) == {<<"Content-Type", v>>}
HeaderSets == {NoHeaders, ContentType("text/html"),
               ContentType("text/html; charset=utf-8"),
               ContentType("application/json")}

Response(status, body, headers) ==
    [raised |-> "none", status |-> status, body |-> body, headers |-> headers]
\* requests.get / requests.post raised instead of returning a response
Raised(cls) == [raised |-> cls, status |-> 0, body |-> "", headers |-> NoHeaders]

NetOutcomes ==
    {Response(s, b, h) : s \in Statuses, b \in Bodies, h \in HeaderSets}
    \cup {Raised("ConnectionError"), Raised("Timeout")}

\* isinstance(e, base) for the requests.exceptions classes that occur
IsInstance(cls, base) ==
    \/ cls = base
    \/ base = "RequestException" /\ cls \in {"HTTPError", "ConnectionError", "Timeout"}

\* response.raise_for_status(): raises HTTPError for 4xx and 5xx only
raise_for_status(status) == 400 <= status /\ status < 600

\* response.json(): whether the body decodes, and what it decodes to
JsonDecodes(body) == body \notin {BodyHtml, BodyEmpty}
json(body) ==
    CASE body = BodyIncidents ->
           Dict([result |-> List(<<Dict([number |-> Str("INC001"),
                                         description |-> Str("test")])>>)])
      [] body = BodyNoRows -> Dict([result |-> List(<<>>)])
      [] body = BodyRules ->
           Dict([result |-> List(<<
               Dict([sys_name |-> Str("r1"), sys_created_by |-> Str("admin"),
                     sys_updated_by |-> Str("bob")]),
               Dict([sys_name |-> Str("r2"), sys_created_by |-> Str("admin"),
                     sys_updated_by |-> Str("admin")])>>)])
      [] body = BodySchema ->
           Dict([result |-> List(<<Dict([element |-> Str("urgency"),
                     internal_type |-> Dict([value |-> Str("integer")])])>>)])
      [] body = BodyCreated -> Dict([result |-> Dict([number |-> Str("INC002")])])
      [] body = BodyError -> Dict([error |-> Dict([message |-> Str("Unauthorized")])])
      [] OTHER -> None

\* response.headers[name]
HasHeader(headers, name) == \E p \in headers : p[1] = name
Header(headers, name) == (CHOOSE p \in headers : p[1] = name)[2]

(***************************************************************************)
(* What one fetcher invocation does, as a value                            *)
(***************************************************************************)
LogLine(level, text, args) == [level |-> level, text |-> text, args |-> args]
OutLine(text, args) == [text |-> text, args |-> args]

\* branch:    the clause of the try statement that ran
\* exc:       the exception that leaves the function, "none" when it returns
\* ret:       the value returned (None when the function does not reach a return)
\* jsonCalls: how many times response.json() was called
Result(branch, exc, ret, logged, printed, jsonCalls) ==
    [branch |-> branch, exc |-> exc, ret |-> ret, log |-> logged,
     out |-> printed, jsonCalls |-> jsonCalls]

Request(method, table, params, headers, data) ==
    [method |-> method, url |-> <<"%s/api/now/table/%s", table>>,
     params |-> params, headers |-> headers, data |-> data]

\* exit() left out or turned into a no-op: control falls out of the handler
exit_pass == "none"

\* exit(): raises SystemExit, which nothing in the script catches
exit == "SystemExit"

\* the exception that leaves the body of the try statement
RaisedInTry(net) ==
    IF net.raised # "none" THEN net.raised
    ELSE IF raise_for_status(net.status) THEN "HTTPError"
    ELSE "none"

MsgDecode == "A problem occured decoding the response from ServiceNow."
MsgNotJson == "A json object was not returned. Verify that your instance is active and try again."
MsgConnection == "There seems to be something wrong with your internet connection. Double check your connection and script parameters. -- %s"
MsgRequest == "There is an issue with your connection to ServiceNow. -- %s"
MsgSuccess == "Successfully retrieved all %s records "

(***************************************************************************)
(* getAllTableRecords                                                      *)
(***************************************************************************)
\* except requests.exceptions.HTTPError as eh
getAllTableRecords_HTTPError(net) ==
    IF ~JsonDecodes(net.body)
    THEN \* response.json() raises inside the handler, before log.error is called
         Result("HTTPError", "JSONDecodeError", None, <<>>, <<>>, 1)
    ELSE Result("HTTPError", exit, None,
                <<LogLine("ERROR", "%s:%s",
                          <<Exc("HTTPError", net.status), json(net.body)>>)>>,
                <<OutLine("%s -- %s",
                          <<Exc("HTTPError", net.status), json(net.body)>>)>>,
                2)

\* except requests.exceptions.ConnectionError as ec
getAllTableRecords_ConnectionError(net) ==
    Result("ConnectionError", exit, None,
           <<LogLine("ERROR", "%s", <<Exc(net.raised, 0)>>)>>,
           <<OutLine(MsgConnection, <<Exc(net.raised, 0)>>)>>,
           0)

\* except requests.exceptions.RequestException as e
getAllTableRecords_RequestException(net) ==
    Result("RequestException", exit, None,
           <<LogLine("ERROR", "%s", <<Exc(net.raised, 0)>>)>>,
           <<OutLine(MsgRequest, <<Exc(net.raised, 0)>>)>>,
           0)

\* the hint test as a media-type match that ignores parameters
IsHtml_mediaType(contentType) ==
    contentType \in {"text/html", "text/html; charset=utf-8"}

\* the test of the hint: response.headers['Content-Type'] == 'text/html'
IsHtml(contentType) == contentType = "text/html"

\* except json.decoder.JSONDecodeError as e
getAllTableRecords_JSONDecodeError(net) ==
    IF ~HasHeader(net.headers, "Content-Type")
    THEN \* response.headers['Content-Type'] raises KeyError inside the handler
         Result("JSONDecodeError", "KeyError", None,
                <<LogLine("ERROR", MsgDecode, <<>>)>>,
                <<OutLine(MsgDecode, <<>>)>>, 1)
    ELSE IF IsHtml(Header(net.headers, "Content-Type"))
    THEN Result("JSONDecodeError", exit, None,
                <<LogLine("ERROR", MsgDecode, <<>>), LogLine("ERROR", MsgNotJson, <<>>)>>,
                <<OutLine(MsgDecode, <<>>), OutLine(MsgNotJson, <<>>)>>, 1)
    ELSE Result("JSONDecodeError", exit, None,
                <<LogLine("ERROR", MsgDecode, <<>>)>>,
                <<OutLine(MsgDecode, <<>>)>>, 1)

\* the else clause without its `return data`
getAllTableRecords_return_missing(net) ==
    Result("else", "none", None,
           <<LogLine("INFO", MsgSuccess, <<Str(App)>>)>>, <<>>, 1)

\* the else clause without its log.info
getAllTableRecords_return_silent(net) ==
    Result("else", "none", json(net.body), <<>>, <<>>, 1)

\* the else clause of the inner try: log and return data
getAllTableRecords_return(net) ==
    Result("else", "none", json(net.body),
           <<LogLine("INFO", MsgSuccess, <<Str(App)>>)>>, <<>>, 1)

getAllTableRecords_request(application, query) ==
    Request("GET", application, query, {<<"Accept", "application/json">>}, "")

\* the clauses with the base class RequestException written first
getAllTableRecords_clause_baseFirst(e) ==
    IF IsInstance(e, "RequestException") THEN "RequestException"
    ELSE IF IsInstance(e, "HTTPError") THEN "HTTPError"
    ELSE IF IsInstance(e, "ConnectionError") THEN "ConnectionError"
    ELSE "else"

\* the except clause that catches `e`, in the order the clauses are written;
\* "else" when the body of the try raised nothing
getAllTableRecords_clause(e) ==
    IF IsInstance(e, "HTTPError") THEN "HTTPError"
    ELSE IF IsInstance(e, "ConnectionError") THEN "ConnectionError"
    ELSE IF IsInstance(e, "RequestException") THEN "RequestException"
    ELSE "else"

getAllTableRecords(application, query, net) ==
    LET clause == getAllTableRecords_clause(RaisedInTry(net))
        r == IF clause = "HTTPError" THEN getAllTableRecords_HTTPError(net)
             ELSE IF clause = "ConnectionError"
                  THEN getAllTableRecords_ConnectionError(net)
             ELSE IF clause = "RequestException"
                  THEN getAllTableRecords_RequestException(net)
             ELSE IF ~JsonDecodes(net.body)
                  THEN getAllTableRecords_JSONDecodeError(net)
             ELSE getAllTableRecords_return(net)
    IN [r EXCEPT !.log = <<LogLine("INFO", "Retrieving all %s records...",
                                   <<Str(App)>>)>> \o @]

BUSINESS_RULE_TABLE_NAME == "sys_script"

getBusinessRules(application, net) ==
    getAllTableRecords(BUSINESS_RULE_TABLE_NAME,
                       <<"sysparm_query=collection=%s", application>>, net)

(***************************************************************************)
(* identifyCustomBusinessRules                                             *)
(***************************************************************************)
\* the test with == in place of !=
isCustom_same(rule) == rule.v["sys_created_by"] = rule.v["sys_updated_by"]

\* the test of the loop: rule["sys_created_by"] != rule["sys_updated_by"]
isCustom(rule) == rule.v["sys_created_by"] # rule.v["sys_updated_by"]

\* the loop body, over the rules not yet visited; customBusRules grows by append
RECURSIVE identifyLoop(_, _)
identifyLoop(rules, customBusRules) ==
    IF rules = <<>> THEN [exc |-> "none", v |-> List(customBusRules)]
    ELSE LET rule == Head(rules)
             e1 == SubscriptExc(rule, "sys_created_by")
             e2 == SubscriptExc(rule, "sys_updated_by")
         IN IF e1 # "none" THEN [exc |-> e1, v |-> None]
            ELSE IF e2 # "none" THEN [exc |-> e2, v |-> None]
            ELSE IF isCustom(rule)
                 THEN identifyLoop(Tail(rules), Append(customBusRules, rule))
            ELSE identifyLoop(Tail(rules), customBusRules)

identifyCustomBusinessRules(rules) ==
    IF SubscriptExc(rules, "result") # "none"
    THEN [exc |-> SubscriptExc(rules, "result"), v |-> None]
    ELSE IF IterExc(rules.v["result"]) # "none"
    THEN [exc |-> IterExc(rules.v["result"]), v |-> None]
    ELSE identifyLoop(IterItems(rules.v["result"]), <<>>)

(***************************************************************************)
(* createRecord                                                            *)
(***************************************************************************)
BuildXML ==
    "<request><entry><short_description>The sky is falling!</short_description><urgency>2</urgency><impact>2</impact></entry></request>"

\* the message of createRecord and PullClassSchema keeps the indentation of its
\* continuation line
MsgConnectionCont == "There seems to be something wrong with your internet connection.         Double check your connection and script parameters. -- %s"

createRecord_request(application, query) ==
    Request("POST", application, query,
            {<<"Content-Type", "application/xml">>, <<"Accept", "application/json">>},
            BuildXML)

\* createRecord without its ConnectionError clause
createRecord_clause_noConnection(e) ==
    IF IsInstance(e, "HTTPError") THEN "HTTPError"
    ELSE IF IsInstance(e, "RequestException") THEN "RequestException"
    ELSE "else"

\* the except clause that catches `e`, in the order the clauses are written
createRecord_clause(e) ==
    IF IsInstance(e, "HTTPError") THEN "HTTPError"
    ELSE IF IsInstance(e, "ConnectionError") THEN "ConnectionError"
    ELSE IF IsInstance(e, "RequestException") THEN "RequestException"
    ELSE "else"

createRecord_handle(net) ==
    LET clause == createRecord_clause(RaisedInTry(net)) IN
    IF clause = "HTTPError"
    THEN IF ~JsonDecodes(net.body)
         THEN Result("HTTPError", "JSONDecodeError", None, <<>>, <<>>, 1)
         ELSE Result("HTTPError", exit, None,
                     <<LogLine("ERROR", "%s:%s",
                               <<Exc("HTTPError", net.status), json(net.body)>>)>>,
                     <<OutLine("%s -- %s",
                               <<Exc("HTTPError", net.status), json(net.body)>>)>>,
                     2)
    ELSE IF clause = "ConnectionError"
    THEN Result("ConnectionError", exit, None,
                <<LogLine("ERROR", "%s", <<Exc(net.raised, 0)>>)>>,
                <<OutLine(MsgConnectionCont, <<Exc(net.raised, 0)>>)>>, 0)
    ELSE IF clause = "RequestException"
    THEN Result("RequestException", exit, None,
                <<LogLine("ERROR", "%s", <<Exc(net.raised, 0)>>)>>,
                <<OutLine(MsgRequest, <<Exc(net.raised, 0)>>)>>, 0)
    ELSE IF ~JsonDecodes(net.body)
    THEN IF ~HasHeader(net.headers, "Content-Type")
         THEN Result("JSONDecodeError", "KeyError", None,
                     <<LogLine("ERROR", MsgDecode, <<>>)>>,
                     <<OutLine(MsgDecode, <<>>)>>, 1)
         ELSE IF Header(net.headers, "Content-Type") = "text/html"
         THEN Result("JSONDecodeError", exit, None,
                     <<LogLine("ERROR", MsgDecode, <<>>),
                       LogLine("ERROR", MsgNotJson, <<>>)>>,
                     <<OutLine(MsgDecode, <<>>), OutLine(MsgNotJson, <<>>)>>, 1)
         ELSE Result("JSONDecodeError", exit, None,
                     <<LogLine("ERROR", MsgDecode, <<>>)>>,
                     <<OutLine(MsgDecode, <<>>)>>, 1)
    ELSE Result("else", "none", json(net.body),
                <<LogLine("INFO", MsgSuccess, <<Str(App)>>)>>, <<>>, 1)

createRecord(application, query, net) ==
    [createRecord_handle(net) EXCEPT
        !.log = <<LogLine("INFO", "Creating %s record...", <<Str(App)>>)>> \o @]

(***************************************************************************)
(* PullClassSchema and classFactory                                        *)
(***************************************************************************)
PullClassSchema_request ==
    Request("GET", "sys_dictionary", <<"sysparm_query=name=%s^ORname=task", App>>,
            {<<"Accept", "application/json">>}, "")

\* the except clause that catches `e`, in the order the clauses are written
PullClassSchema_clause(e) ==
    IF IsInstance(e, "HTTPError") THEN "HTTPError"
    ELSE IF IsInstance(e, "ConnectionError") THEN "ConnectionError"
    ELSE IF IsInstance(e, "RequestException") THEN "RequestException"
    ELSE "else"

PullClassSchema_handle(net) ==
    LET clause == PullClassSchema_clause(RaisedInTry(net)) IN
    IF clause = "HTTPError"
    THEN IF ~JsonDecodes(net.body)
         THEN Result("HTTPError", "JSONDecodeError", None, <<>>, <<>>, 1)
         ELSE Result("HTTPError", exit, None,
                     <<LogLine("ERROR", "%s:%s",
                               <<Exc("HTTPError", net.status), json(net.body)>>)>>,
                     <<OutLine("%s -- %s",
                               <<Exc("HTTPError", net.status), json(net.body)>>)>>,
                     2)
    ELSE IF clause = "ConnectionError"
    THEN Result("ConnectionError", exit, None,
                <<LogLine("ERROR", "%s", <<Exc(net.raised, 0)>>)>>,
                <<OutLine(MsgConnectionCont, <<Exc(net.raised, 0)>>)>>, 0)
    ELSE IF clause = "RequestException"
    THEN Result("RequestException", exit, None,
                <<LogLine("ERROR", "%s", <<Exc(net.raised, 0)>>)>>,
                <<OutLine(MsgRequest, <<Exc(net.raised, 0)>>)>>, 0)
    ELSE IF ~JsonDecodes(net.body)
    THEN IF ~HasHeader(net.headers, "Content-Type")
         THEN Result("JSONDecodeError", "KeyError", None,
                     <<LogLine("ERROR", MsgDecode, <<>>)>>,
                     <<OutLine(MsgDecode, <<>>)>>, 1)
         ELSE IF Header(net.headers, "Content-Type") = "text/html"
         THEN Result("JSONDecodeError", exit, None,
                     <<LogLine("ERROR", MsgDecode, <<>>),
                       LogLine("ERROR", MsgNotJson, <<>>)>>,
                     <<OutLine(MsgDecode, <<>>), OutLine(MsgNotJson, <<>>)>>, 1)
         ELSE Result("JSONDecodeError", exit, None,
                     <<LogLine("ERROR", MsgDecode, <<>>)>>,
                     <<OutLine(MsgDecode, <<>>)>>, 1)
    ELSE Result("else", "none", json(net.body),
                <<LogLine("INFO", MsgSuccess, <<Str(App)>>)>>, <<>>, 1)

PullClassSchema(net) ==
    [PullClassSchema_handle(net) EXCEPT
        !.log = <<LogLine("INFO", "Retreiving schema for %s table...",
                          <<Str(App)>>)>> \o @]

\* the loop of classFactory over schema['result']: classAttributes as the list of
\* <<element, internal_type>> in insertion order, and the lines it logs
RECURSIVE classFactoryLoop(_, _, _)
classFactoryLoop(attrs, classAttributes, logged) ==
    IF attrs = <<>>
    THEN [exc |-> "none", v |-> [t |-> "type", v |-> classAttributes], log |-> logged]
    ELSE LET attr == Head(attrs)
             e1 == SubscriptExc(attr, "internal_type")
             e2 == SubscriptExc(attr, "element")
             e3 == SubscriptExc(attr.v["internal_type"], "value")
         IN IF e1 # "none" THEN [exc |-> e1, v |-> None, log |-> logged]
            ELSE IF e2 # "none" THEN [exc |-> e2, v |-> None, log |-> logged]
            ELSE IF e3 # "none" THEN [exc |-> e3, v |-> None, log |-> logged]
            ELSE classFactoryLoop(
                    Tail(attrs),
                    SelectSeq(classAttributes, LAMBDA p : p[1] # attr.v["element"])
                        \o <<<<attr.v["element"], attr.v["internal_type"]>>>>,
                    Append(logged, LogLine("INFO", "%s: %s",
                        <<attr.v["element"], attr.v["internal_type"].v["value"]>>)))

\* classFactory after PullClassSchema has returned `schema`
classFactory(schema) ==
    IF SubscriptExc(schema, "result") # "none"
    THEN [exc |-> SubscriptExc(schema, "result"), v |-> None, log |-> <<>>]
    ELSE IF IterExc(schema.v["result"]) # "none"
    THEN [exc |-> IterExc(schema.v["result"]), v |-> None, log |-> <<>>]
    ELSE classFactoryLoop(IterItems(schema.v["result"]), <<>>, <<>>)


(***************************************************************************)
(* main                                                                    *)
(***************************************************************************)
\* how the process stands once `exc` has left main: exit() ends it through
\* SystemExit, any other exception through the interpreter's traceback
Ended(exc) ==
    IF exc = "none" THEN "running"
    ELSE IF exc = "SystemExit" THEN "SystemExit"
    ELSE "Traceback"

\* the exit status the shell sees: exit() passes no status, so SystemExit(None)
\* ends the process with status 0, like a run that reaches the end of the script
ExitStatus(p) == IF p = "Traceback" THEN 1 ELSE 0

NoCall == [fn |-> "none", net |-> Raised("none"),
           res |-> Result("none", "none", None, <<>>, <<>>, 0)]

\* a fetcher was invoked: what it sent and how it ended
Invoke(fn, request, net, res) ==
    /\ requests' = Append(requests, request)
    /\ call' = [fn |-> fn, net |-> net, res |-> res]
    /\ calls' = Append(calls, [fn |-> fn, branch |-> res.branch, exc |-> res.exc])

\* the loop of Demo 1 over records["result"]
RECURSIVE printRecords(_, _)
printRecords(items, inc) ==
    IF items = <<>> THEN [exc |-> "none", out |-> <<>>]
    ELSE LET record == Head(items)
             e1 == SubscriptExc(record, "number")
             e2 == SubscriptExc(record, "description")
         IN IF e1 # "none" THEN [exc |-> e1, out |-> <<>>]
            ELSE IF e2 # "none" THEN [exc |-> e2, out |-> <<>>]
            ELSE LET rest == printRecords(Tail(items), inc + 1)
                 IN [exc |-> rest.exc,
                     out |-> <<OutLine("%s. %s - %s",
                                 <<PyInt(inc), record.v["number"],
                                   record.v["description"]>>)>> \o rest.out]

\* the loop of Demo 2 over custBusRules
RECURSIVE logRules(_, _)
logRules(rules, inc) ==
    IF rules = <<>> THEN [exc |-> "none", log |-> <<>>]
    ELSE LET e1 == SubscriptExc(Head(rules), "sys_name")
         IN IF e1 # "none" THEN [exc |-> e1, log |-> <<>>]
            ELSE LET rest == logRules(Tail(rules), inc + 1)
                 IN [exc |-> rest.exc,
                     log |-> <<LogLine("INFO", "%s. %s",
                                 <<PyInt(inc), Head(rules).v["sys_name"]>>)>> \o rest.log]

Init ==
    /\ pc = "demo1"
    /\ proc = "running"
    /\ log = <<LogLine("INFO", "Initializing", <<>>)>>
    /\ stdout = <<>>
    /\ requests = <<>>
    /\ call = NoCall
    /\ calls = <<>>
    /\ records = None
    /\ busRules = None
    /\ custBusRules = None
    /\ newClass = None
    /\ newObject = None

\* Demo 1: getAllTableRecords(args, args.application), then print every record
Demo1 ==
    /\ pc = "demo1" /\ proc = "running"
    /\ \E net \in NetOutcomes :
         LET res == getAllTableRecords(App, <<"">>, net)
             rows == res.ret.v["result"]
             loop == printRecords(IterItems(rows), 1)
             exc == IF res.exc # "none" THEN res.exc
                    ELSE IF SubscriptExc(res.ret, "result") # "none"
                         THEN SubscriptExc(res.ret, "result")
                    ELSE IF IterExc(rows) # "none" THEN IterExc(rows)
                    ELSE loop.exc
             reachedLoop == /\ res.exc = "none"
                            /\ SubscriptExc(res.ret, "result") = "none"
                            /\ IterExc(rows) = "none"
         IN /\ Invoke("getAllTableRecords", getAllTableRecords_request(App, <<"">>),
                      net, res)
            /\ log' = log \o <<LogLine("INFO", "Beginning Execution", <<>>)>> \o res.log
            /\ records' = IF res.exc = "none" THEN res.ret ELSE records
            /\ stdout' = stdout \o res.out \o (IF reachedLoop THEN loop.out ELSE <<>>)
            /\ proc' = Ended(exc)
            /\ pc' = IF exc = "none" THEN "demo2" ELSE "exited"
    /\ UNCHANGED <<busRules, custBusRules, newClass, newObject>>

\* Demo 2: getBusinessRules, identifyCustomBusinessRules, log every custom rule
Demo2 ==
    /\ pc = "demo2" /\ proc = "running"
    /\ \E net \in NetOutcomes :
         LET res == getBusinessRules(App, net)
             cust == identifyCustomBusinessRules(res.ret)
             loop == logRules(cust.v.v, 1)
             exc == IF res.exc # "none" THEN res.exc
                    ELSE IF cust.exc # "none" THEN cust.exc
                    ELSE loop.exc
         IN /\ Invoke("getAllTableRecords",
                      getAllTableRecords_request(BUSINESS_RULE_TABLE_NAME,
                          <<"sysparm_query=collection=%s", App>>),
                      net, res)
            /\ log' = log \o res.log
                        \o (IF res.exc = "none" /\ cust.exc = "none" THEN loop.log ELSE <<>>)
            /\ busRules' = IF res.exc = "none" THEN res.ret ELSE busRules
            /\ custBusRules' = IF res.exc = "none" /\ cust.exc = "none"
                               THEN cust.v ELSE custBusRules
            /\ stdout' = stdout \o res.out
            /\ proc' = Ended(exc)
            /\ pc' = IF exc = "none" THEN "demo3" ELSE "exited"
    /\ UNCHANGED <<records, newClass, newObject>>

\* Demo 3: classFactory(args.application), which calls PullClassSchema
Demo3 ==
    /\ pc = "demo3" /\ proc = "running"
    /\ \E net \in NetOutcomes :
         LET res == PullClassSchema(net)
             made == classFactory(res.ret)
             exc == IF res.exc # "none" THEN res.exc ELSE made.exc
         IN /\ Invoke("PullClassSchema", PullClassSchema_request, net, res)
            /\ log' = log
                  \o <<LogLine("INFO", "Generating new class from Servicenow %s schema...",
                               <<Str(App)>>)>>
                  \o res.log
                  \o (IF res.exc = "none" THEN made.log ELSE <<>>)
                  \o (IF exc = "none"
                      THEN <<LogLine("INFO", "Successfull created new class: \r %s",
                                     <<made.v>>)>>
                      ELSE <<>>)
            /\ newClass' = IF exc = "none" THEN made.v ELSE newClass
            /\ stdout' = stdout \o res.out
            /\ proc' = Ended(exc)
            /\ pc' = IF exc = "none" THEN "demo4" ELSE "exited"
    /\ UNCHANGED <<records, busRules, custBusRules, newObject>>

\* Demo 4: createRecord(args, args.application), then the end of main
Demo4 ==
    /\ pc = "demo4" /\ proc = "running"
    /\ \E net \in NetOutcomes :
         LET res == createRecord(App, <<"">>, net)
         IN /\ Invoke("createRecord", createRecord_request(App, <<"">>), net, res)
            /\ log' = log \o res.log
                  \o (IF res.exc = "none"
                      THEN <<LogLine("INFO", "%s", <<res.ret>>),
                             LogLine("INFO", "Completed Script execution", <<>>)>>
                      ELSE <<>>)
            /\ newObject' = IF res.exc = "none" THEN res.ret ELSE newObject
            /\ stdout' = stdout \o res.out
            /\ proc' = IF res.exc = "none" THEN "completed" ELSE Ended(res.exc)
            /\ pc' = IF res.exc = "none" THEN "done" ELSE "exited"
    /\ UNCHANGED <<records, busRules, custBusRules, newClass>>

Next == Demo1 \/ Demo2 \/ Demo3 \/ Demo4

Spec == Init /\ [][Next]_vars

(***************************************************************************)
(* identifyCustomBusinessRules on its own, over every payload of at most   *)
(* MaxRules business rules                                                 *)
(***************************************************************************)
Users == {"admin", "bob"}
RuleNames == {"r1", "r2"}
RuleRecords ==
    {Dict([sys_name |-> Str(n), sys_created_by |-> Str(c), sys_updated_by |-> Str(u)]) :
        n \in RuleNames, c \in Users, u \in Users}

SeqsUpTo(S, n) == UNION {[1..k -> S] : k \in 0..n}

RulePayloads == {Dict([result |-> List(s)]) : s \in SeqsUpTo(RuleRecords, MaxRules)}

InitRules ==
    /\ pc = "identify"
    /\ proc = "running"
    /\ log = <<LogLine("INFO", "Initializing", <<>>)>>
    /\ stdout = <<>>
    /\ requests = <<>>
    /\ call = NoCall
    /\ calls = <<>>
    /\ records = None
    /\ busRules \in RulePayloads
    /\ custBusRules = None
    /\ newClass = None
    /\ newObject = None

\* custBusRules = identifyCustomBusinessRules(busRules)
Identify ==
    /\ pc = "identify" /\ proc = "running"
    /\ LET cust == identifyCustomBusinessRules(busRules)
       IN /\ custBusRules' = cust.v
          /\ proc' = Ended(cust.exc)
          /\ pc' = IF cust.exc = "none" THEN "identified" ELSE "exited"
    /\ UNCHANGED <<log, stdout, requests, call, calls, records, busRules,
                   newClass, newObject>>

NextRules == Identify

SpecRules == InitRules /\ [][NextRules]_vars

(***************************************************************************)
(* Properties                                                              *)
(***************************************************************************)
IsGet == call.fn = "getAllTableRecords"
GotResponse == call.fn # "none" /\ call.net.raised = "none"
Is2xx(status) == 200 <= status /\ status < 300
ProcessEnded == proc \in {"SystemExit", "Traceback"}
Printed(text) == \E i \in DOMAIN stdout : stdout[i].text = text
CountLevel(lines, level) ==
    Cardinality({i \in DOMAIN lines : lines[i].level = level})
FailureClauses == {"HTTPError", "ConnectionError", "RequestException", "JSONDecodeError"}

\* C1: for every response with a non-2xx status, JSON body or not,
\* getAllTableRecords ends the process, never returns, and the log holds an
\* error line carrying the status and the response body.
C1_NonSuccessStatusIsLoggedAndFatal ==
    (IsGet /\ GotResponse /\ ~Is2xx(call.net.status)) =>
        /\ ProcessEnded
        /\ call.res.exc # "none"
        /\ \E i \in DOMAIN log :
              /\ log[i].level = "ERROR"
              /\ \E k \in DOMAIN log[i].args :
                    log[i].args[k] = Exc("HTTPError", call.net.status)
              /\ \E k \in DOMAIN log[i].args :
                    log[i].args[k] \in {json(call.net.body), Str(call.net.body)}

\* C2: for every 2xx response whose body fails JSON decoding,
\* getAllTableRecords ends the process after printing the generic
\* decode-failure message, and the "verify that your instance is active" hint
\* is printed if and only if the Content-Type header is exactly "text/html".
C2_HintIffExactTextHtml ==
    (IsGet /\ GotResponse /\ Is2xx(call.net.status) /\ ~JsonDecodes(call.net.body)) =>
        /\ ProcessEnded
        /\ call.res.exc # "none"
        /\ Printed(MsgDecode)
        /\ Printed(MsgNotJson) <=> call.net.headers = ContentType("text/html")

\* a decode failure whose Content-Type is text/html with a charset parameter
\* ended the process without the hint
C2_Witness ==
    /\ IsGet /\ call.net.status = 200 /\ call.net.body = BodyHtml
    /\ call.net.headers = ContentType("text/html; charset=utf-8")
    /\ proc = "SystemExit"
    /\ Printed(MsgDecode) /\ ~Printed(MsgNotJson)

HasResultArray(data) ==
    /\ data.t = "dict"
    /\ "result" \in DOMAIN data.v
    /\ data.v["result"].t = "list"

\* C3: for every 2xx GET whose body decodes to JSON holding a `result`
\* array, getAllTableRecords returns that decoded structure unmodified to its
\* caller and does not end the process.
C3_SuccessReturnsDecodedBody ==
    (/\ IsGet /\ GotResponse /\ Is2xx(call.net.status)
     /\ JsonDecodes(call.net.body) /\ HasResultArray(json(call.net.body))) =>
        /\ call.res.exc = "none"
        /\ call.res.ret = json(call.net.body)
        /\ (IF Len(calls) = 1 THEN records ELSE busRules) = json(call.net.body)

\* Scenario A reached Demo 2 with the mapping in `records`
C3_Witness ==
    /\ IsGet /\ Len(calls) = 1 /\ call.net.status = 200
    /\ call.net.body = BodyIncidents
    /\ pc = "demo2" /\ proc = "running"
    /\ records = json(BodyIncidents)

\* the failure outcomes end the process through exit() after an error line
\* was logged and a message printed
Diagnosed(res) ==
    /\ res.exc = "SystemExit"
    /\ CountLevel(res.log, "ERROR") >= 1
    /\ res.out # <<>>
OutcomesOf(c) ==
    {o \in FailureClauses : c.res.branch = o /\ Diagnosed(c.res)}
    \cup (IF c.res.branch = "else" /\ c.res.exc = "none" /\ c.res.ret = json(c.net.body)
          THEN {"Success"} ELSE {})

\* C4: every invocation of a fetcher ends in exactly one of the five outcomes
\* (HTTP error, connection error, other request error, undecodable body, each
\* ending the process after a logged and printed diagnostic, or success
\* returning the decoded structure), never outside them.
C4_ExactlyOneOfFiveOutcomes ==
    call.fn # "none" => Cardinality(OutcomesOf(call)) = 1

\* C5: on every failure branch of a fetcher the process ends with a non-zero
\* exit status, unlike a run that completes.
C5_FailureExitsNonZero ==
    (call.fn # "none" /\ call.res.branch \in FailureClauses) =>
        /\ ProcessEnded
        /\ ExitStatus(proc) # 0
        /\ ExitStatus(proc) # ExitStatus("completed")

\* C6: for any connectivity exception raised by the network call,
\* getAllTableRecords ends the process with the connectivity message, logged
\* and printed with the check-your-connection hint, and response.json() is
\* never called on that path.
C6_ConnectionErrorBeforeDecoding ==
    (IsGet /\ call.net.raised = "ConnectionError") =>
        /\ proc = "SystemExit"
        /\ call.res.exc = "SystemExit"
        /\ log[Len(log)] = LogLine("ERROR", "%s", <<Exc("ConnectionError", 0)>>)
        /\ stdout # <<>>
        /\ stdout[Len(stdout)] = OutLine(MsgConnection, <<Exc("ConnectionError", 0)>>)
        /\ call.res.jsonCalls = 0

\* the business-rule fetch of Demo 2 hit a connection error
C6_Witness ==
    /\ IsGet /\ Len(calls) = 2 /\ call.net.raised = "ConnectionError"
    /\ proc = "SystemExit" /\ pc = "exited"

\* C7: once any fetcher call reaches a failure branch the process ends at
\* once: that call never returns to main, it is the last call of the run and
\* no HTTP request is issued after its own.
C7_FailureIsTerminal ==
    \A i \in DOMAIN calls :
        calls[i].branch \in FailureClauses =>
            /\ calls[i].exc # "none"
            /\ i = Len(calls)
            /\ Len(requests) = i
            /\ ProcessEnded
            /\ pc = "exited"

\* Demo 3's schema fetch failed after two demos had succeeded
C7_Witness ==
    /\ Len(calls) = 3
    /\ calls[3].fn = "PullClassSchema"
    /\ calls[3].branch = "RequestException"
    /\ Len(requests) = 3
    /\ proc = "SystemExit"

\* C8: createRecord classifies like getAllTableRecords: on the same network
\* outcome both take the same clause, end the same way, return the same value
\* and write as many error lines; the request differs in being a POST with
\* Content-Type application/xml and the XML body.
C8_CreateClassifiesLikeRead ==
    call.fn = "createRecord" =>
        LET read == getAllTableRecords(App, <<"">>, call.net)
            sent == requests[Len(requests)]
            readSent == getAllTableRecords_request(App, <<"">>)
        IN /\ call.res.branch = read.branch
           /\ call.res.exc = read.exc
           /\ call.res.ret = read.ret
           /\ call.res.jsonCalls = read.jsonCalls
           /\ CountLevel(call.res.log, "ERROR") = CountLevel(read.log, "ERROR")
           /\ Len(call.res.out) = Len(read.out)
           /\ sent.method = "POST" /\ readSent.method = "GET"
           /\ sent.url = readSent.url
           /\ sent.params = readSent.params
           /\ sent.headers = readSent.headers \cup {<<"Content-Type", "application/xml">>}
           /\ sent.data = BuildXML

\* createRecord met a connection error
C8_Witness ==
    /\ call.fn = "createRecord" /\ Len(calls) = 4
    /\ call.net.raised = "ConnectionError"
    /\ call.res.branch = "ConnectionError"
    /\ proc = "SystemExit"

\* Scenario D: a 201 with a JSON body reaches the end of the script
C8_WitnessCreated ==
    /\ call.fn = "createRecord" /\ call.net.status = 201
    /\ call.net.body = BodyCreated
    /\ newObject = json(BodyCreated) /\ proc = "completed"

\* C9 as stated: each fetcher call writes exactly one informational line if
\* it succeeds and exactly one error line if it fails.
C9_OneLinePerCall ==
    call.fn # "none" =>
        IF call.res.exc = "none"
        THEN CountLevel(call.res.log, "INFO") = 1
        ELSE CountLevel(call.res.log, "ERROR") = 1

\* C9 amended: each fetcher call writes one informational line before the
\* request; a call that returns writes one more informational line and no
\* error line; a call that fails writes no further informational line and
\* two error lines when a non-HTTP-error response is undecodable with
\* Content-Type exactly text/html, none when an HTTP-error response has an
\* undecodable body, and one error line otherwise.
C9_LinesPerOutcome ==
    call.fn # "none" =>
        LET n == call.net
            info == CountLevel(call.res.log, "INFO")
            errors == CountLevel(call.res.log, "ERROR")
            httpError == n.raised = "none" /\ raise_for_status(n.status)
        IN /\ Len(call.res.log) = info + errors
           /\ IF call.res.exc = "none"
              THEN info = 2 /\ errors = 0
              ELSE /\ info = 1
                   /\ errors =
                        IF n.raised # "none" THEN 1
                        ELSE IF httpError
                             THEN (IF JsonDecodes(n.body) THEN 1 ELSE 0)
                        ELSE IF n.headers = ContentType("text/html") THEN 2
                        ELSE 1

\* a getAllTableRecords call returned having written two informational lines
C9_Witness ==
    /\ IsGet /\ call.res.exc = "none"
    /\ CountLevel(call.res.log, "INFO") = 2

\* a decode failure on text/html wrote two error lines
C9_WitnessHint ==
    /\ call.fn # "none" /\ call.res.branch = "JSONDecodeError"
    /\ call.net.headers = ContentType("text/html")
    /\ CountLevel(call.res.log, "ERROR") = 2

CustomIndexes(rules) ==
    {j \in DOMAIN rules :
        rules[j].v["sys_created_by"] # rules[j].v["sys_updated_by"]}

\* C10: identifyCustomBusinessRules returns exactly the records of
\* payload["result"] whose sys_created_by differs from sys_updated_by, each
\* once and in their original relative order, and leaves the payload as it was.
C10_CustomRulesFiltered ==
    [][pc = "identify" =>
        /\ busRules' = busRules
        /\ pc' = "identified"
        /\ custBusRules'.t = "list"
        /\ LET given == busRules.v["result"].v
               found == custBusRules'.v
           IN \E f \in [DOMAIN found -> DOMAIN given] :
                 /\ \A i, j \in DOMAIN found : i < j => f[i] < f[j]
                 /\ \A i \in DOMAIN found : found[i] = given[f[i]]
                 /\ {f[i] : i \in DOMAIN found} = CustomIndexes(given)]_vars

\* a payload of three rules, the middle one untouched, gave back the two others
C10_Witness ==
    /\ pc = "identified"
    /\ Len(busRules.v["result"].v) = 3
    /\ CustomIndexes(busRules.v["result"].v) = {1, 3}
    /\ Len(custBusRules.v) = 2
    /\ custBusRules.v[1] = busRules.v["result"].v[1]
    /\ custBusRules.v[2] = busRules.v["result"].v[3]

====
